---- MODULE Spec2Model ----
(***************************************************************************)
(* StatefulChatbot (src/session_memory_chatbot/chatbot.py): one chatbot    *)
(* object with a shared rolling message buffer, a shared summary memory,  *)
(* a turn counter, an active session pointer and per-session profiles.    *)
(*                                                                         *)
(* Texts (messages, prompts, replies) are sequences of string tokens, so  *)
(* that f-string formatting is concatenation and a prefixed message is    *)
(* different from the message itself.  Python's None is the string "None" *)
(* for the optional strings; a dict is a function on the set of its keys; *)
(* the preferences dict keeps insertion order and is a sequence of        *)
(* <<key, value>> pairs.  The external model is an opaque call that       *)
(* either returns a text from Responses or raises.                        *)
(***************************************************************************)
EXTENDS Naturals, Sequences, FiniteSets, TLC

None == "None"

\* The inputs the callers draw from (main.py:20-21 never passes an empty
\* session id, and passes either None or a non-empty name).
SessionIds == {"s1", "s2"}
Names == {"Ann"}
PrefKeys == {"color", "lang"}
PrefValues == {"blue", "red"}
Messages == {<<"hi">>, <<"bye">>}
Responses == {<<"ok">>, <<"sure">>}
PlainMessage == <<"hi">>
PlainResponse == <<"ok">>

\* Bounds of the exploration: a run spends at most MaxCost, where a chat call
\* costs 1, each other state-changing call (start_session,
\* update_user_preference, clear_memory), each switch of session by chat and
\* each message or model reply other than the plain one costs CallCost more,
\* and a failing external model call FailCost more.
MaxCost == 32
CallCost == 10
FailCost == 5

\* ConversationBufferWindowMemory(k=10) and the threshold of _should_summarize.
WindowK == 10
SummarizeThreshold == 10

VARIABLES
    current_session_id,  \* self.current_session_id: a session id or None
    message_count,       \* self.message_count
    user_profiles,       \* self.user_profiles: session id -> profile
    session_memory,      \* self.session_memory.chat_memory.messages
    summary_memory,      \* self.summary_memory: its messages and its buffer
    ret,                 \* the last call of the public interface and its outcome
    prev,                \* the chatbot's state before that call
    served,              \* per session, since its last clear_memory: the chats
                         \* answered, and those of them not put in a history
    since_reset,         \* since the last start or clear: the chat calls, the
                         \* summaries made, whether a summary attempt failed
    referenced,          \* the ids passed to start_session,
                         \* update_user_preference or chat so far
    failures,            \* the external model calls that have failed so far
    cost                 \* what the run has spent so far, against MaxCost

vars == <<current_session_id, message_count, user_profiles, session_memory,
          summary_memory, ret, prev, served, since_reset, referenced,
          failures, cost>>

Snapshot ==
    [current_session_id |-> current_session_id,
     message_count |-> message_count,
     user_profiles |-> user_profiles,
     session_memory |-> session_memory,
     summary_memory |-> summary_memory]

----------------------------------------------------------------------------
\* The external model: one call returns a text or raises.
LLMOutcomes ==
    {[ok |-> TRUE, content |-> r] : r \in Responses}
        \cup {[ok |-> FALSE, content |-> <<>>]}

Unused == [ok |-> TRUE, content |-> PlainResponse]

HumanMessage(content) == [type |-> "human", content |-> content]
AIMessage(content) == [type |-> "ai", content |-> content]

\* BaseChatMemory.save_context: the input and the output, appended in this order.
save_context(messages, input, output) ==
    messages \o <<HumanMessage(input), AIMessage(output)>>

\* ConversationBufferWindowMemory.load_memory_variables: the last k exchanges.
load_memory_variables(messages) ==
    IF Len(messages) <= 2 * WindowK THEN messages
    ELSE SubSeq(messages, Len(messages) - 2 * WindowK + 1, Len(messages))

----------------------------------------------------------------------------
\* Profiles.
new_profile(user_name) ==
    [name |-> user_name, preferences |-> <<>>, conversation_history |-> <<>>]

\* set_item with the bug that a key already present keeps its first value.
set_item_keeps_first(prefs, key, value) ==
    IF \E i \in 1..Len(prefs) : prefs[i][1] = key
    THEN prefs
    ELSE Append(prefs, <<key, value>>)

\* dict.__setitem__ on the insertion-ordered preferences.
set_item(prefs, key, value) ==
    IF \E i \in 1..Len(prefs) : prefs[i][1] = key
    THEN [i \in 1..Len(prefs) |->
             IF prefs[i][1] = key THEN <<key, value>> ELSE prefs[i]]
    ELSE Append(prefs, <<key, value>>)

has_key(prefs, key) == \E i \in 1..Len(prefs) : prefs[i][1] = key

get_item(prefs, key) ==
    LET i == CHOOSE j \in 1..Len(prefs) : prefs[j][1] = key IN prefs[i][2]

put(profiles, session_id, profile) ==
    [s \in DOMAIN profiles \cup {session_id} |->
        IF s = session_id THEN profile ELSE profiles[s]]

\* start_session_profiles with the bug that a profile is created also when
\* no name is given.
start_session_profiles_always(profiles, session_id, user_name) ==
    IF session_id \notin DOMAIN profiles
    THEN put(profiles, session_id, new_profile(user_name))
    ELSE IF user_name # None
         THEN put(profiles, session_id,
                  [profiles[session_id] EXCEPT !.name = user_name])
         ELSE profiles

\* start_session_profiles with the bug that a start without a name stores
\* the missing name over the one the profile has.
start_session_profiles_drops_name(profiles, session_id, user_name) ==
    IF session_id \notin DOMAIN profiles
    THEN IF user_name # None
         THEN put(profiles, session_id, new_profile(user_name))
         ELSE profiles
    ELSE put(profiles, session_id,
             [profiles[session_id] EXCEPT !.name = user_name])

\* start_session_profiles with the bug that a start with a name always
\* stores a fresh profile.
start_session_profiles_recreates(profiles, session_id, user_name) ==
    IF user_name # None
    THEN put(profiles, session_id, new_profile(user_name))
    ELSE profiles

\* start_session, lines 84-93: the profile is touched only if a name is given.
start_session_profiles(profiles, session_id, user_name) ==
    IF user_name # None
    THEN IF session_id \notin DOMAIN profiles
         THEN put(profiles, session_id, new_profile(user_name))
         ELSE put(profiles, session_id,
                  [profiles[session_id] EXCEPT !.name = user_name])
    ELSE profiles

greeting(session_id, user_name) ==
    <<"Session ", session_id, " started. Hello">>
        \o (IF user_name # None THEN <<" ", user_name>> ELSE <<>>) \o <<"!">>

\* update_user_preference, lines 103-106.
update_preference_profiles(profiles, session_id, key, value) ==
    LET p1 == IF session_id \notin DOMAIN profiles
              THEN put(profiles, session_id, new_profile(None))
              ELSE profiles
    IN put(p1, session_id,
           [p1[session_id] EXCEPT
               !.preferences = set_item(p1[session_id].preferences, key, value)])

\* clear_history_profiles with the bug that the whole profile is reset but
\* for the name.
clear_history_profiles_resets(profiles, target_session) ==
    IF target_session \in DOMAIN profiles
    THEN put(profiles, target_session,
             new_profile(profiles[target_session].name))
    ELSE profiles

\* clear_history_profiles with the bug that the profile is deleted.
clear_history_profiles_deletes(profiles, target_session) ==
    [s \in DOMAIN profiles \ {target_session} |-> profiles[s]]

\* clear_memory, lines 199-200.
clear_history_profiles(profiles, target_session) ==
    IF target_session \in DOMAIN profiles
    THEN put(profiles, target_session,
             [profiles[target_session] EXCEPT !.conversation_history = <<>>])
    ELSE profiles

\* record_exchange with the bug that the exchange replaces the history.
record_exchange_overwrites(profiles, session_id, message, response) ==
    IF session_id \in DOMAIN profiles
    THEN put(profiles, session_id,
             [profiles[session_id] EXCEPT
                 !.conversation_history =
                     <<[user |-> message, assistant |-> response]>>])
    ELSE profiles

\* record_exchange with the bug that the exchange is appended to every
\* profile.
record_exchange_in_all(profiles, session_id, message, response) ==
    IF session_id \in DOMAIN profiles
    THEN [s \in DOMAIN profiles |->
             [profiles[s] EXCEPT
                 !.conversation_history =
                     Append(@, [user |-> message, assistant |-> response])]]
    ELSE profiles

\* chat, lines 178-182.
record_exchange(profiles, session_id, message, response) ==
    IF session_id \in DOMAIN profiles
    THEN put(profiles, session_id,
             [profiles[session_id] EXCEPT
                 !.conversation_history =
                     Append(@, [user |-> message, assistant |-> response])])
    ELSE profiles

----------------------------------------------------------------------------
\* The read-only operations.
NoProfile == [absent |-> TRUE]

get_user_profile(session_id) ==
    IF session_id \in DOMAIN user_profiles
    THEN user_profiles[session_id] ELSE NoProfile

get_conversation_history(session_id) ==
    LET target_session ==
            IF session_id # None THEN session_id ELSE current_session_id
    IN IF target_session # None /\ target_session \in DOMAIN user_profiles
       THEN user_profiles[target_session].conversation_history
       ELSE <<>>

get_session_info(session_id) ==
    LET target_session ==
            IF session_id # None THEN session_id ELSE current_session_id
        known == target_session \in DOMAIN user_profiles
    IN IF target_session = None THEN [error |-> "No active session"]
       ELSE [session_id |-> target_session,
             message_count |-> message_count,
             user_name |-> IF known THEN user_profiles[target_session].name
                           ELSE None,
             preferences |-> IF known
                             THEN user_profiles[target_session].preferences
                             ELSE <<>>,
             history_length |->
                 IF known
                 THEN Len(user_profiles[target_session].conversation_history)
                 ELSE 0,
             memory_buffer_size |-> Len(session_memory)]

----------------------------------------------------------------------------
\* The summarizer.
\* should_summarize with the threshold off by one.
should_summarize_late(count) == count > SummarizeThreshold + 1

\* _should_summarize, lines 108-110.
should_summarize(count) == count > SummarizeThreshold

EmptySummary == [messages |-> <<>>, buffer |-> <<>>]

\* summarize_conversation with the bug that the counter is not reset.
summarize_conversation_keeps_count(count, messages, summary, o1, o2) ==
    IF count > SummarizeThreshold
    THEN IF ~o1.ok
         THEN [raised |-> TRUE, done |-> FALSE, message_count |-> count,
               session_memory |-> messages, summary_memory |-> summary,
               llm_calls |-> 1]
         ELSE LET saved == save_context(summary.messages,
                                        <<"Conversation Summary">>, o1.content)
              IN IF ~o2.ok
                 THEN [raised |-> TRUE, done |-> FALSE, message_count |-> count,
                       session_memory |-> <<>>,
                       summary_memory |-> [summary EXCEPT !.messages = saved],
                       llm_calls |-> 2]
                 ELSE [raised |-> FALSE, done |-> TRUE, message_count |-> count,
                       session_memory |-> <<>>,
                       summary_memory |->
                           [messages |-> saved, buffer |-> o2.content],
                       llm_calls |-> 2]
    ELSE [raised |-> FALSE, done |-> FALSE, message_count |-> count,
          session_memory |-> messages, summary_memory |-> summary,
          llm_calls |-> 0]

\* summarize_conversation with the bug that the summary memory is wiped
\* before the new summary is saved.
summarize_conversation_wipes_summary(count, messages, summary, o1, o2) ==
    IF count > SummarizeThreshold
    THEN IF ~o1.ok
         THEN [raised |-> TRUE, done |-> FALSE, message_count |-> count,
               session_memory |-> messages, summary_memory |-> summary,
               llm_calls |-> 1]
         ELSE LET saved == save_context(<<>>,
                                        <<"Conversation Summary">>, o1.content)
              IN IF ~o2.ok
                 THEN [raised |-> TRUE, done |-> FALSE, message_count |-> count,
                       session_memory |-> <<>>,
                       summary_memory |-> [summary EXCEPT !.messages = saved],
                       llm_calls |-> 2]
                 ELSE [raised |-> FALSE, done |-> TRUE, message_count |-> 0,
                       session_memory |-> <<>>,
                       summary_memory |->
                           [messages |-> saved, buffer |-> o2.content],
                       llm_calls |-> 2]
    ELSE [raised |-> FALSE, done |-> FALSE, message_count |-> count,
          session_memory |-> messages, summary_memory |-> summary,
          llm_calls |-> 0]

\* summarize_conversation with the bug that the rolling buffer is cleared
\* before the summary is asked for.
summarize_conversation_clears_first(count, messages, summary, o1, o2) ==
    IF count > SummarizeThreshold
    THEN IF ~o1.ok
         THEN [raised |-> TRUE, done |-> FALSE, message_count |-> count,
               session_memory |-> <<>>, summary_memory |-> summary,
               llm_calls |-> 1]
         ELSE LET saved == save_context(summary.messages,
                                        <<"Conversation Summary">>, o1.content)
              IN IF ~o2.ok
                 THEN [raised |-> TRUE, done |-> FALSE,
                       message_count |-> count, session_memory |-> <<>>,
                       summary_memory |->
                           [summary EXCEPT !.messages = saved],
                       llm_calls |-> 2]
                 ELSE [raised |-> FALSE, done |-> TRUE, message_count |-> 0,
                       session_memory |-> <<>>,
                       summary_memory |->
                           [messages |-> saved, buffer |-> o2.content],
                       llm_calls |-> 2]
    ELSE [raised |-> FALSE, done |-> FALSE, message_count |-> count,
          session_memory |-> messages, summary_memory |-> summary,
          llm_calls |-> 0]

\* _summarize_conversation, lines 112-142.  o1 is the outcome of llm.invoke
\* (line 129); o2 the outcome of the model call summary_memory.save_context
\* makes to fold the saved exchange into its running summary (line 133),
\* after it has appended the exchange to its messages.
summarize_conversation(count, messages, summary, o1, o2) ==
    IF count > SummarizeThreshold
    THEN IF ~o1.ok
         THEN [raised |-> TRUE, done |-> FALSE, message_count |-> count,
               session_memory |-> messages, summary_memory |-> summary,
               llm_calls |-> 1]
         ELSE LET saved == save_context(summary.messages,
                                        <<"Conversation Summary">>, o1.content)
              IN IF ~o2.ok
                 THEN [raised |-> TRUE, done |-> FALSE, message_count |-> count,
                       session_memory |-> <<>>,
                       summary_memory |-> [summary EXCEPT !.messages = saved],
                       llm_calls |-> 2]
                 ELSE [raised |-> FALSE, done |-> TRUE, message_count |-> 0,
                       session_memory |-> <<>>,
                       summary_memory |->
                           [messages |-> saved, buffer |-> o2.content],
                       llm_calls |-> 2]
    ELSE [raised |-> FALSE, done |-> FALSE, message_count |-> count,
          session_memory |-> messages, summary_memory |-> summary,
          llm_calls |-> 0]

----------------------------------------------------------------------------
\* The orchestrator.
RECURSIVE join_preferences(_)
join_preferences(prefs) ==
    IF prefs = <<>> THEN <<>>
    ELSE <<prefs[1][1], ": ", prefs[1][2]>>
            \o (IF Len(prefs) > 1
                THEN <<", ">> \o join_preferences(Tail(prefs)) ELSE <<>>)

\* profile_context with the bug that the name part is written also for a
\* profile without a name.
profile_context_names_none(profiles, session_id) ==
    IF session_id \in DOMAIN profiles
    THEN <<"User's name: ", profiles[session_id].name, ". ">>
         \o (IF profiles[session_id].preferences # <<>>
             THEN <<"User preferences: ">>
                      \o join_preferences(profiles[session_id].preferences)
                      \o <<". ">>
             ELSE <<>>)
    ELSE <<>>

\* chat, lines 161-169.
profile_context(profiles, session_id) ==
    IF session_id \in DOMAIN profiles
    THEN (IF profiles[session_id].name # None
          THEN <<"User's name: ", profiles[session_id].name, ". ">>
          ELSE <<>>)
         \o (IF profiles[session_id].preferences # <<>>
             THEN <<"User preferences: ">>
                      \o join_preferences(profiles[session_id].preferences)
                      \o <<". ">>
             ELSE <<>>)
    ELSE <<>>

\* chat, line 172.
enhanced_message(profiles, session_id, message) ==
    profile_context(profiles, session_id) \o message

\* predict with the bug that the input is saved before the model is called.
predict_saves_input(messages, input, o) ==
    IF o.ok
    THEN [raised |-> FALSE, response |-> o.content,
          history |-> load_memory_variables(messages),
          session_memory |-> save_context(messages, input, o.content)]
    ELSE [raised |-> TRUE, response |-> <<>>,
          history |-> load_memory_variables(messages),
          session_memory |-> messages \o <<HumanMessage(input)>>]

\* ConversationChain.predict, line 175: the model is called with the window
\* of the buffer and the input; the exchange is saved only if it answers.
predict(messages, input, o) ==
    IF o.ok
    THEN [raised |-> FALSE, response |-> o.content,
          history |-> load_memory_variables(messages),
          session_memory |-> save_context(messages, input, o.content)]
    ELSE [raised |-> TRUE, response |-> <<>>,
          history |-> load_memory_variables(messages),
          session_memory |-> messages]

\* needs_start with the bug that a session is started only when none is
\* active.
needs_start_only_if_idle(session_id, current) ==
    session_id # None /\ current = None

\* chat, line 146: is the session to be started first?
needs_start(session_id, current) ==
    session_id # None /\ session_id # current

\* select_session with the bug that the implicit start keeps the counter.
select_session_keeps_count(session_id) ==
    IF needs_start(session_id, current_session_id)
    THEN [sid |-> session_id, count |-> message_count,
          profiles |-> start_session_profiles(user_profiles, session_id, None),
          switched |-> TRUE]
    ELSE [sid |-> current_session_id, count |-> message_count,
          profiles |-> user_profiles, switched |-> FALSE]

\* chat, lines 146-147: the session the call serves, after start_session
\* without a name.
select_session(session_id) ==
    IF needs_start(session_id, current_session_id)
    THEN [sid |-> session_id, count |-> 0,
          profiles |-> start_session_profiles(user_profiles, session_id, None),
          switched |-> TRUE]
    ELSE [sid |-> current_session_id, count |-> message_count,
          profiles |-> user_profiles, switched |-> FALSE]

\* rejected with the bug that the counter is incremented before the check.
rejected_after_increment(sel) ==
    [outcome |-> "ValueError", response |-> <<>>, input |-> <<>>,
     history |-> <<>>,
     switched |-> sel.switched, tried_summary |-> FALSE,
     current_session_id |-> sel.sid, message_count |-> sel.count + 1,
     user_profiles |-> sel.profiles, session_memory |-> session_memory,
     summary_memory |-> summary_memory, llm_calls |-> 0, summarized |-> FALSE]

\* chat, lines 149-150: no active session, the call raises.
rejected(sel) ==
    [outcome |-> "ValueError", response |-> <<>>, input |-> <<>>,
     history |-> <<>>,
     switched |-> sel.switched, tried_summary |-> FALSE,
     current_session_id |-> sel.sid, message_count |-> sel.count,
     user_profiles |-> sel.profiles, session_memory |-> session_memory,
     summary_memory |-> summary_memory, llm_calls |-> 0, summarized |-> FALSE]

\* chat, lines 152-184: the state the call leaves and what it returns or
\* raises.
answer(sel, message, o1, o2, o3) ==
    LET count1 == sel.count + 1
        sm == IF should_summarize(count1)
              THEN summarize_conversation(count1, session_memory,
                                          summary_memory, o1, o2)
              ELSE [raised |-> FALSE, done |-> FALSE, message_count |-> count1,
                    session_memory |-> session_memory,
                    summary_memory |-> summary_memory, llm_calls |-> 0]
        input == enhanced_message(sel.profiles, sel.sid, message)
        p == predict(sm.session_memory, input, o3)
    IN IF sm.raised
       THEN [outcome |-> "UpstreamError", response |-> <<>>, input |-> <<>>,
             history |-> <<>>,
             switched |-> sel.switched, tried_summary |-> TRUE,
             current_session_id |-> sel.sid, message_count |-> sm.message_count,
             user_profiles |-> sel.profiles,
             session_memory |-> sm.session_memory,
             summary_memory |-> sm.summary_memory,
             llm_calls |-> sm.llm_calls, summarized |-> FALSE]
       ELSE IF p.raised
       THEN [outcome |-> "UpstreamError", response |-> <<>>, input |-> input,
             history |-> p.history,
             switched |-> sel.switched, tried_summary |-> sm.llm_calls > 0,
             current_session_id |-> sel.sid, message_count |-> sm.message_count,
             user_profiles |-> sel.profiles,
             session_memory |-> p.session_memory,
             summary_memory |-> sm.summary_memory,
             llm_calls |-> sm.llm_calls + 1, summarized |-> sm.done]
       ELSE [outcome |-> "ok", response |-> p.response, input |-> input,
             history |-> p.history,
             switched |-> sel.switched, tried_summary |-> sm.llm_calls > 0,
             current_session_id |-> sel.sid, message_count |-> sm.message_count,
             user_profiles |->
                 record_exchange(sel.profiles, sel.sid, message, p.response),
             session_memory |-> p.session_memory,
             summary_memory |-> sm.summary_memory,
             llm_calls |-> sm.llm_calls + 1, summarized |-> sm.done]

chat_call(message, session_id, o1, o2, o3) ==
    LET sel == select_session(session_id)
    IN IF sel.sid = None THEN rejected(sel)
       ELSE answer(sel, message, o1, o2, o3)

----------------------------------------------------------------------------
\* What the last call was and what came of it.
Ret(op, session_id, user_name, key, value, message, r) ==
    [op |-> op, session_id |-> session_id, user_name |-> user_name,
     key |-> key, value |-> value, message |-> message,
     outcome |-> r.outcome, response |-> r.response, input |-> r.input,
     history |-> r.history,
     llm_calls |-> r.llm_calls, tried_summary |-> r.tried_summary,
     summarized |-> r.summarized]

Returned(response) ==
    [outcome |-> "ok", response |-> response, input |-> <<>>,
     history |-> <<>>, llm_calls |-> 0,
     tried_summary |-> FALSE, summarized |-> FALSE]

NothingServed == [answered |-> 0, unrecorded |-> 0]
JustReset == [chats |-> 0, summaries |-> 0, summary_failed |-> FALSE]

Init ==
    /\ current_session_id = None
    /\ message_count = 0
    /\ user_profiles = <<>>
    /\ session_memory = <<>>
    /\ summary_memory = EmptySummary
    /\ ret = Ret("__init__", None, None, None, None, <<>>, Returned(<<>>))
    /\ prev = [current_session_id |-> None, message_count |-> 0,
               user_profiles |-> <<>>, session_memory |-> <<>>,
               summary_memory |-> EmptySummary]
    /\ served = [s \in SessionIds |-> NothingServed]
    /\ since_reset = JustReset
    /\ referenced = {}
    /\ failures = 0
    /\ cost = 0

\* start_session with the bug that it also clears the rolling buffer.
start_session_clears_buffer(session_id, user_name) ==
    /\ cost + CallCost <= MaxCost
    /\ current_session_id' = session_id
    /\ message_count' = 0
    /\ user_profiles' =
           start_session_profiles(user_profiles, session_id, user_name)
    /\ session_memory' = <<>>
    /\ ret' = Ret("start_session", session_id, user_name, None, None, <<>>,
                  Returned(greeting(session_id, user_name)))
    /\ prev' = Snapshot
    /\ since_reset' = JustReset
    /\ referenced' = referenced \cup {session_id}
    /\ cost' = cost + CallCost
    /\ UNCHANGED <<summary_memory, served, failures>>

\* start_session, lines 79-95.
start_session(session_id, user_name) ==
    /\ cost + CallCost <= MaxCost
    /\ current_session_id' = session_id
    /\ message_count' = 0
    /\ user_profiles' =
           start_session_profiles(user_profiles, session_id, user_name)
    /\ ret' = Ret("start_session", session_id, user_name, None, None, <<>>,
                  Returned(greeting(session_id, user_name)))
    /\ prev' = Snapshot
    /\ since_reset' = JustReset
    /\ referenced' = referenced \cup {session_id}
    /\ cost' = cost + CallCost
    /\ UNCHANGED <<session_memory, summary_memory, served, failures>>

\* update_user_preference, lines 101-106.
update_user_preference(session_id, key, value) ==
    /\ cost + CallCost <= MaxCost
    /\ user_profiles' =
           update_preference_profiles(user_profiles, session_id, key, value)
    /\ ret' = Ret("update_user_preference", session_id, None, key, value,
                  <<>>, Returned(<<>>))
    /\ prev' = Snapshot
    /\ referenced' = referenced \cup {session_id}
    /\ cost' = cost + CallCost
    /\ UNCHANGED <<current_session_id, message_count, session_memory,
                   summary_memory, served, since_reset, failures>>

\* The outcomes of the external model calls a chat call can make: those of
\* the calls it does not reach are immaterial and fixed to Unused.
Outcomes(message, session_id) ==
    LET dry == chat_call(message, session_id, Unused, Unused, Unused)
        o1s == IF dry.tried_summary THEN LLMOutcomes ELSE {Unused}
        o2s(o1) == IF dry.tried_summary /\ o1.ok THEN LLMOutcomes ELSE {Unused}
        o3s(o1, o2) == IF dry.llm_calls > 0 /\ o1.ok /\ o2.ok
                       THEN LLMOutcomes ELSE {Unused}
    IN UNION {UNION {{<<o1, o2, o3>> : o3 \in o3s(o1, o2)} : o2 \in o2s(o1)}
                 : o1 \in o1s}

\* chat, lines 144-184.
chat(message, session_id) ==
    \E o \in Outcomes(message, session_id) :
      \E r \in {chat_call(message, session_id, o[1], o[2], o[3])} :
      \E spent \in {1 + (IF r.outcome = "UpstreamError" THEN FailCost ELSE 0)
                      + CallCost * ((IF r.switched THEN 1 ELSE 0)
                          + (IF message # PlainMessage THEN 1 ELSE 0)
                          + Cardinality({i \in 1..3 : o[i].ok
                                /\ o[i].content # PlainResponse}))} :
         /\ cost + spent <= MaxCost
         /\ current_session_id' = r.current_session_id
         /\ message_count' = r.message_count
         /\ user_profiles' = r.user_profiles
         /\ session_memory' = r.session_memory
         /\ summary_memory' = r.summary_memory
         /\ ret' = Ret("chat", session_id, None, None, None, message, r)
         /\ prev' = Snapshot
         /\ served' =
                IF r.outcome = "ok"
                THEN [served EXCEPT ![r.current_session_id] =
                         [answered |-> @.answered + 1,
                          unrecorded |-> @.unrecorded +
                              (IF r.current_session_id \in DOMAIN user_profiles
                               THEN 0 ELSE 1)]]
                ELSE served
         /\ since_reset' =
                LET base == IF r.switched THEN JustReset ELSE since_reset
                IN IF r.outcome = "ValueError" THEN base
                   ELSE [chats |-> base.chats + 1,
                         summaries |-> base.summaries +
                                           (IF r.summarized THEN 1 ELSE 0),
                         summary_failed |-> base.summary_failed
                             \/ (r.tried_summary /\ ~r.summarized)]
         /\ referenced' = referenced \cup ({session_id} \ {None})
         /\ failures' = failures +
                            (IF r.outcome = "UpstreamError" THEN 1 ELSE 0)
         /\ cost' = cost + spent

\* clear_memory, lines 193-201.
clear_memory(session_id) ==
    /\ cost + CallCost <= MaxCost
    /\ LET target_session ==
               IF session_id # None THEN session_id ELSE current_session_id
       IN IF target_session # None
          THEN /\ session_memory' = <<>>
               /\ summary_memory' = EmptySummary
               /\ user_profiles' =
                      clear_history_profiles(user_profiles, target_session)
               /\ message_count' = 0
               /\ served' = [served EXCEPT ![target_session] = NothingServed]
               /\ since_reset' = JustReset
          ELSE UNCHANGED <<session_memory, summary_memory, user_profiles,
                           message_count, served, since_reset>>
    /\ ret' = Ret("clear_memory", session_id, None, None, None, <<>>,
                  Returned(<<>>))
    /\ prev' = Snapshot
    /\ cost' = cost + CallCost
    /\ UNCHANGED <<current_session_id, referenced, failures>>

Next ==
    \/ \E s \in SessionIds, n \in Names \cup {None} : start_session(s, n)
    \/ \E s \in SessionIds, k \in PrefKeys, v \in PrefValues :
           update_user_preference(s, k, v)
    \/ \E m \in Messages, s \in SessionIds \cup {None} : chat(m, s)
    \/ \E s \in SessionIds \cup {None} : clear_memory(s)

Spec == Init /\ [][Next]_vars

----------------------------------------------------------------------------
\* The claims.  ret is the last call and prev the state before it, so a
\* statement about what a call does is a statement about one state.

ChatServed == ret.op = "chat" /\ ret.outcome # "ValueError"
Switched == ret.session_id # None /\ ret.session_id # prev.current_session_id
CountBeforeTurn == IF Switched THEN 0 ELSE prev.message_count
Target == IF ret.session_id # None THEN ret.session_id
          ELSE prev.current_session_id
HistoryIn(profiles, s) ==
    IF s \in DOMAIN profiles THEN profiles[s].conversation_history ELSE <<>>

\* C1, as stated: a chat call attempts summarization exactly when it takes the
\* turn counter from 10 to 11, and after the 11th chat call since the last
\* reset summarization has happened exactly once and the counter is 0.
C1_SummarizesExactlyOnEleventh ==
    /\ ChatServed => (ret.tried_summary <=> CountBeforeTurn = 10)
    /\ since_reset.chats = 11 =>
           since_reset.summaries = 1 /\ message_count = 0

\* C1, amended: a chat call attempts summarization exactly when the counter
\* it increments is already 10 or more; it is more than 10 only after a
\* summarization attempt failed; and as long as no attempt has failed since
\* the last reset, one summary has been made per 11 chat calls and the
\* counter is the number of chat calls since the last of them.
C1_SummarizesWhenCounterExceedsTen ==
    /\ ChatServed => (ret.tried_summary <=> CountBeforeTurn >= 10)
    /\ ChatServed /\ CountBeforeTurn > 10 => since_reset.summary_failed
    /\ ~since_reset.summary_failed =>
           /\ since_reset.summaries = since_reset.chats \div 11
           /\ message_count = since_reset.chats % 11

\* C1, witness: start_session with a name, then 11 chat calls, the last of
\* which summarized.
C1_Witness ==
    /\ ret.op = "chat" /\ ret.summarized /\ ret.outcome = "ok"
    /\ since_reset = [chats |-> 11, summaries |-> 1, summary_failed |-> FALSE]
    /\ message_count = 0
    /\ current_session_id \in DOMAIN user_profiles
    /\ user_profiles[current_session_id].name # None
    /\ Len(user_profiles[current_session_id].conversation_history) = 11

\* C2, as stated: the message list of session_memory, whose length
\* get_session_info reports as memory_buffer_size, never holds more than 10
\* entries.
C2_BufferHoldsAtMostTen ==
    /\ Len(session_memory) <= 10
    /\ \A s \in SessionIds : get_session_info(s).memory_buffer_size <= 10

C5_ChatStartsNamedSession ==
    ret.op = "chat" /\ ret.session_id # None
        /\ ret.session_id # prev.current_session_id =>
        /\ ret.outcome # "ValueError"
        /\ current_session_id = ret.session_id
        /\ message_count = 1
        /\ ret.llm_calls = 1
        /\ ret.outcome = "ok" =>
               /\ ret.response \in Responses
               /\ session_memory =
                      prev.session_memory
                          \o <<HumanMessage(ret.input), AIMessage(ret.response)>>

\* C5, witness: the first call of a run is a chat for a session id, which
\* has therefore never been started, and it is answered.
C5_Witness ==
    /\ ret.op = "chat" /\ ret.outcome = "ok"
    /\ prev.current_session_id = None /\ ret.session_id \in SessionIds
    /\ referenced = {ret.session_id}
    /\ served[ret.session_id].answered = 1
    /\ current_session_id = ret.session_id

\* C6: a chat call without a session id while no session is active raises
\* the invalid-state error, calls the model not once, and leaves the active
\* pointer, the counter, the buffer, the summary and the profiles alone.
C6_ChatWithoutSessionRaises ==
    ret.op = "chat" /\ ret.session_id = None
        /\ prev.current_session_id = None =>
        /\ ret.outcome = "ValueError"
        /\ ret.llm_calls = 0
        /\ Snapshot = prev

\* C6, witness: such a call, made after a preference was stored.
C6_Witness ==
    /\ ret.op = "chat" /\ ret.session_id = None
    /\ prev.current_session_id = None
    /\ ret.outcome = "ValueError"
    /\ user_profiles # <<>>

\* C7: clear_memory empties the history of the session it targets and sets
\* the counter to 0; it keeps the set of profiles, the name and the
\* preferences of the target, and the whole profile of every other session.
C7_ClearKeepsNameAndPreferences ==
    ret.op = "clear_memory" /\ Target # None =>
        /\ message_count = 0
        /\ get_conversation_history(Target) = <<>>
        /\ DOMAIN user_profiles = DOMAIN prev.user_profiles
        /\ \A s \in DOMAIN user_profiles :
               IF s = Target
               THEN /\ user_profiles[s].name = prev.user_profiles[s].name
                    /\ user_profiles[s].preferences =
                           prev.user_profiles[s].preferences
               ELSE user_profiles[s] = prev.user_profiles[s]

\* C7, witness: clear_memory(s) for a session with a name, a preference and
\* a non-empty history.
C7_Witness ==
    /\ ret.op = "clear_memory" /\ ret.session_id \in DOMAIN user_profiles
    /\ prev.user_profiles[ret.session_id].conversation_history # <<>>
    /\ user_profiles[ret.session_id].name # None
    /\ user_profiles[ret.session_id].preferences # <<>>
    /\ user_profiles[ret.session_id].conversation_history = <<>>

\* C8: the turn counter is 0 after a chat call that summarized and after
\* every clear_memory call, with or without a session id, for the active
\* session or another.
C8_CounterZeroAfterSummaryAndClear ==
    /\ ret.op = "chat" /\ ret.summarized => message_count = 0
    /\ ret.op = "clear_memory" => message_count = 0

\* C8, witness: clear_memory for a session other than the active one, when
\* the counter was not 0.
C8_Witness ==
    /\ ret.op = "clear_memory" /\ ret.session_id # None
    /\ current_session_id # None /\ ret.session_id # current_session_id
    /\ prev.message_count > 0
    /\ message_count = 0

SummaryEntries(summary) == Len(summary.messages) \div 2

IsPrefix(a, b) == Len(a) <= Len(b) /\ SubSeq(b, 1, Len(a)) = a

\* C9, as stated, for the runs in which no summarization attempt failed:
\* right after a summarization the rolling buffer has been cleared and the
\* standing summary holds exactly one entry.
C9_SummaryHoldsOneEntry ==
    ret.op = "chat" /\ ret.summarized /\ ~since_reset.summary_failed =>
        /\ SummaryEntries(summary_memory) = 1
        /\ session_memory =
               IF ret.outcome = "ok"
               THEN <<HumanMessage(ret.input), AIMessage(ret.response)>>
               ELSE <<>>

\* C9, amended: a summarization clears the rolling buffer, so that it holds
\* the exchange of the current turn only, and appends the new summary to the
\* standing summary without wiping it: the entries saved before stay and the
\* new one comes last; entries of earlier summarizations accumulate until a
\* clear_memory call, the only call that removes any.
C9_SummaryAccumulates ==
    /\ ret.op = "chat" /\ ret.summarized =>
           /\ session_memory =
                  IF ret.outcome = "ok"
                  THEN <<HumanMessage(ret.input), AIMessage(ret.response)>>
                  ELSE <<>>
           /\ \E text \in Responses :
                  summary_memory.messages =
                      prev.summary_memory.messages
                          \o <<HumanMessage(<<"Conversation Summary">>),
                               AIMessage(text)>>
    /\ ret.op # "clear_memory" =>
           IsPrefix(prev.summary_memory.messages, summary_memory.messages)

\* C9, witness: the second summarization of a session in which no model
\* call failed leaves two entries.
C9_Witness ==
    /\ ret.op = "chat" /\ ret.summarized
    /\ since_reset.summaries = 2 /\ ~since_reset.summary_failed
    /\ SummaryEntries(summary_memory) = 2

PreferencesIn(profiles, s) ==
    IF s \in DOMAIN profiles THEN profiles[s].preferences ELSE <<>>

\* C10: after update_user_preference(s, k, v) the preferences of s hold v
\* for k, hold for every other key what they held before, in the order they
\* had, and the other profiles are as they were; a profile the call creates
\* has no name and an empty history, one it finds keeps both; no other call
\* changes the preferences of a profile.
C10_LastWriteWins ==
    /\ ret.op = "update_user_preference" =>
           LET s == ret.session_id
               before == PreferencesIn(prev.user_profiles, s)
               after == get_user_profile(s).preferences
           IN /\ has_key(after, ret.key)
              /\ get_item(after, ret.key) = ret.value
              /\ \A k \in PrefKeys \ {ret.key} :
                     /\ has_key(after, k) <=> has_key(before, k)
                     /\ has_key(before, k) =>
                            get_item(after, k) = get_item(before, k)
              /\ Len(after) = Len(before) + (IF has_key(before, ret.key)
                                             THEN 0 ELSE 1)
              /\ \A i \in 1..Len(before) : after[i][1] = before[i][1]
              /\ DOMAIN user_profiles = DOMAIN prev.user_profiles \cup {s}
              /\ \A t \in DOMAIN prev.user_profiles \ {s} :
                     user_profiles[t] = prev.user_profiles[t]
              /\ get_user_profile(s).name =
                     IF s \in DOMAIN prev.user_profiles
                     THEN prev.user_profiles[s].name ELSE None
              /\ get_user_profile(s).conversation_history =
                     HistoryIn(prev.user_profiles, s)
    /\ ret.op # "update_user_preference" =>
           \A t \in DOMAIN prev.user_profiles :
               /\ t \in DOMAIN user_profiles
               /\ user_profiles[t].preferences =
                      prev.user_profiles[t].preferences

\* C10, witness: a key is overwritten with another value while the profile
\* holds a second key.
C10_Witness ==
    /\ ret.op = "update_user_preference"
    /\ has_key(PreferencesIn(prev.user_profiles, ret.session_id), ret.key)
    /\ get_item(PreferencesIn(prev.user_profiles, ret.session_id), ret.key)
           # ret.value
    /\ Len(get_user_profile(ret.session_id).preferences) = 2
    /\ get_item(get_user_profile(ret.session_id).preferences, ret.key)
           = ret.value

NameIn(profiles, s) ==
    IF s \in DOMAIN profiles THEN profiles[s].name ELSE None

\* C11: re-starting a session without a name erases nothing stored for it:
\* start_session(s) without a name leaves every profile as it was, and a
\* chat call that names a session other than the active one leaves the
\* name and the preferences stored for it as they were and keeps the
\* entries its history already had, in their order, adding at most the
\* exchange of this call after them.
C11_RestartWithoutNameKeepsProfile ==
    /\ ret.op = "start_session" /\ ret.user_name = None =>
           user_profiles = prev.user_profiles
    /\ ret.op = "chat" /\ Switched =>
           LET s == ret.session_id
           IN /\ DOMAIN user_profiles = DOMAIN prev.user_profiles
              /\ NameIn(user_profiles, s) = NameIn(prev.user_profiles, s)
              /\ PreferencesIn(user_profiles, s)
                     = PreferencesIn(prev.user_profiles, s)
              /\ IsPrefix(HistoryIn(prev.user_profiles, s),
                          HistoryIn(user_profiles, s))
              /\ Len(HistoryIn(user_profiles, s))
                     <= Len(HistoryIn(prev.user_profiles, s)) + 1

\* C11, witness: a chat call names a session that is not the active one and
\* that has a name and a history from before; both are still there.
C11_Witness ==
    /\ ret.op = "chat" /\ Switched /\ ret.outcome = "ok"
    /\ prev.current_session_id # None
    /\ NameIn(prev.user_profiles, ret.session_id) \in Names
    /\ Len(HistoryIn(prev.user_profiles, ret.session_id)) = 1
    /\ NameIn(user_profiles, ret.session_id) \in Names
    /\ Len(HistoryIn(user_profiles, ret.session_id)) = 2

\* The model call that produces the reply is the last one a chat call makes;
\* it was made and failed when the call failed and no summarization was left
\* unfinished.
ReplyFailed ==
    /\ ret.op = "chat" /\ ret.outcome = "UpstreamError"
    /\ ret.tried_summary => ret.summarized

\* C12: when the model call that produces the reply fails, the chat call
\* fails, the model was asked for the reply once (after the two calls of a
\* summarization, if this turn summarized), no profile has changed, and the
\* rolling buffer holds no entry of the failed turn: it is as it was, or
\* empty if this turn summarized.
C12_ReplyFailurePropagates ==
    ReplyFailed =>
        /\ ret.response = <<>>
        /\ ret.llm_calls = (IF ret.summarized THEN 2 ELSE 0) + 1
        /\ user_profiles = prev.user_profiles
        /\ session_memory =
               IF ret.summarized THEN <<>> ELSE prev.session_memory

\* C12, witness: the reply call fails in a session that has a profile, a
\* history and a buffer from earlier turns.
C12_Witness ==
    /\ ReplyFailed /\ ~ret.tried_summary
    /\ current_session_id \in DOMAIN user_profiles
    /\ Len(HistoryIn(user_profiles, current_session_id)) = 1
    /\ Len(session_memory) = 2
    /\ failures = 1

\* C13, as stated: start_session with the id of the active session and the
\* name stored for it, and update_user_preference with a key that already
\* holds the value, leave the whole state as it was.
C13_ConsistentCallsChangeNothing ==
    /\ ret.op = "start_session"
           /\ ret.session_id = prev.current_session_id
           /\ ret.user_name # None
           /\ ret.user_name = NameIn(prev.user_profiles, ret.session_id) =>
           Snapshot = prev
    /\ ret.op = "update_user_preference"
           /\ has_key(PreferencesIn(prev.user_profiles, ret.session_id),
                      ret.key)
           /\ get_item(PreferencesIn(prev.user_profiles, ret.session_id),
                       ret.key) = ret.value =>
           Snapshot = prev

\* C13, amended: update_user_preference with a key that already holds the
\* value leaves the whole state as it was; start_session with the id of the
\* active session and the name stored for it leaves the active pointer, the
\* rolling buffer, the standing summary and all profiles as they were and
\* sets the turn counter to 0, so it changes nothing only when the counter
\* was 0 already.
C13_ConsistentStartResetsCounterOnly ==
    /\ ret.op = "start_session"
           /\ ret.session_id = prev.current_session_id
           /\ ret.user_name # None
           /\ ret.user_name = NameIn(prev.user_profiles, ret.session_id) =>
           /\ Snapshot = [prev EXCEPT !.message_count = 0]
           /\ prev.message_count = 0 => Snapshot = prev
    /\ ret.op = "update_user_preference"
           /\ has_key(PreferencesIn(prev.user_profiles, ret.session_id),
                      ret.key)
           /\ get_item(PreferencesIn(prev.user_profiles, ret.session_id),
                       ret.key) = ret.value =>
           Snapshot = prev

\* C13, witness: the active session, which has a name, a history and a
\* counter above 0, is started again with the same id and name.
C13_Witness ==
    /\ ret.op = "start_session"
    /\ ret.session_id = prev.current_session_id
    /\ ret.user_name \in Names
    /\ ret.user_name = NameIn(prev.user_profiles, ret.session_id)
    /\ prev.message_count > 0
    /\ Len(HistoryIn(user_profiles, ret.session_id)) > 0
    /\ message_count = 0

\* The model call that produces the reply was made: the call was not refused
\* and no summarization was left unfinished.
ReplyAsked ==
    /\ ChatServed
    /\ ret.tried_summary => ret.summarized

LastMessages(messages, n) ==
    IF Len(messages) <= n THEN messages
    ELSE [i \in 1..n |-> messages[Len(messages) - n + i]]

\* C14: start_session makes the given id the active session and the turn
\* counter 0 and leaves the rolling buffer and the standing summary as they
\* were; and the conversation a chat call hands to the model is the window
\* (the last 10 exchanges) of the buffer as the call found it, whichever
\* session wrote it, unless this very turn summarized it away.
C14_StartKeepsBufferAndSummary ==
    /\ ret.op = "start_session" =>
           /\ ret.outcome = "ok"
           /\ current_session_id = ret.session_id
           /\ message_count = 0
           /\ session_memory = prev.session_memory
           /\ summary_memory = prev.summary_memory
    /\ ReplyAsked /\ ~ret.summarized =>
           ret.history = LastMessages(prev.session_memory, 2 * WindowK)

\* C14, witness: start_session for another session than the active one,
\* whose turns are in the buffer and whose counter was above 0.
C14_Witness ==
    /\ ret.op = "start_session"
    /\ prev.current_session_id \in SessionIds \ {ret.session_id}
    /\ prev.message_count = 2
    /\ Len(session_memory) = 4
    /\ message_count = 0
    /\ current_session_id = ret.session_id

\* C15: a call changes no profile but that of the session it targets (the
\* given session id, or the active session when none is given): every other
\* profile is as it was and none is created; and a history grows only by
\* the exchange of an answered chat call, in the profile of the session
\* that is active when the call returns.
C15_ProfilesIsolated ==
    /\ \A b \in (DOMAIN prev.user_profiles \cup DOMAIN user_profiles)
                  \ {Target} :
           /\ b \in DOMAIN prev.user_profiles
           /\ b \in DOMAIN user_profiles
           /\ user_profiles[b] = prev.user_profiles[b]
    /\ \A b \in DOMAIN user_profiles :
           Len(HistoryIn(user_profiles, b))
               > Len(HistoryIn(prev.user_profiles, b)) =>
               /\ ret.op = "chat" /\ ret.outcome = "ok"
               /\ current_session_id = b
               /\ HistoryIn(user_profiles, b) =
                      Append(HistoryIn(prev.user_profiles, b),
                             [user |-> ret.message,
                              assistant |-> ret.response])

\* C15, witness: an answered chat call is recorded in the profile of the
\* active session while another session has a profile, which is untouched.
C15_Witness ==
    /\ ret.op = "chat" /\ ret.outcome = "ok"
    /\ DOMAIN user_profiles = SessionIds
    /\ Len(HistoryIn(user_profiles, current_session_id)) = 1
    /\ \A b \in SessionIds \ {current_session_id} :
           HistoryIn(user_profiles, b) = <<>>

\* C16: no call deletes a profile or a preference: every profile present
\* before a call is present after it, and every preference key a profile
\* held before the call it holds after it, whatever the call; so what is
\* once present is present in every later state.
C16_ProfilesAndKeysStay ==
    \A s \in DOMAIN prev.user_profiles :
        /\ s \in DOMAIN user_profiles
        /\ get_user_profile(s) # NoProfile
        /\ \A k \in PrefKeys :
               has_key(prev.user_profiles[s].preferences, k) =>
                   has_key(user_profiles[s].preferences, k)

\* C16, witness: clear_memory for a session with a name, a preference and a
\* history: the history is gone, the profile and the preference are there.
C16_Witness ==
    /\ ret.op = "clear_memory" /\ ret.session_id \in SessionIds
    /\ ret.session_id \in DOMAIN prev.user_profiles
    /\ HistoryIn(prev.user_profiles, ret.session_id) # <<>>
    /\ HistoryIn(user_profiles, ret.session_id) = <<>>
    /\ get_user_profile(ret.session_id) # NoProfile
    /\ Len(PreferencesIn(user_profiles, ret.session_id)) = 1

NamePart(name) ==
    IF name # None THEN <<"User's name: ", name, ". ">> ELSE <<>>

\* The preferences part for the at most two keys there are.
PreferencesPart(prefs) ==
    IF Len(prefs) = 0 THEN <<>>
    ELSE IF Len(prefs) = 1
         THEN <<"User preferences: ", prefs[1][1], ": ", prefs[1][2], ". ">>
         ELSE <<"User preferences: ", prefs[1][1], ": ", prefs[1][2], ", ",
                prefs[2][1], ": ", prefs[2][2], ". ">>

\* C17: the input a chat call sends to the model for the reply is the name
\* part, if the profile of the session served has a name, then the
\* preferences part with the keys in insertion order, if it has any
\* preference, then the message; it is the message alone when the session
\* has no profile.  The standing summary is no part of it, and in the turn
\* that summarized the conversation handed to the model is empty.
C17_InputIsPrefixThenMessage ==
    ReplyAsked =>
        LET s == current_session_id
        IN /\ Len(PreferencesIn(prev.user_profiles, s)) <= 2
           /\ ret.input =
                  NamePart(NameIn(prev.user_profiles, s))
                      \o PreferencesPart(PreferencesIn(prev.user_profiles, s))
                      \o ret.message
           /\ s \notin DOMAIN prev.user_profiles => ret.input = ret.message
           /\ ret.summarized => ret.history = <<>>
           /\ \A i \in DOMAIN ret.input, j \in DOMAIN summary_memory.buffer :
                  ret.input[i] # summary_memory.buffer[j]

\* C17, witness: a chat call for a session with a name and two preferences.
C17_Witness ==
    /\ ReplyAsked /\ ret.outcome = "ok"
    /\ NameIn(user_profiles, current_session_id) \in Names
    /\ Len(PreferencesIn(user_profiles, current_session_id)) = 2
    /\ Len(ret.input) = 3 + 9 + Len(ret.message)
    /\ ret.input[1] = "User's name: "
    /\ ret.input[4] = "User preferences: "

\* C18: as long as no external model call has failed, the turn counter is
\* between 0 and the threshold of 10, and it is 0 whenever no session is
\* active.
C18_CounterWithinThreshold ==
    /\ failures = 0 =>
           message_count >= 0 /\ message_count <= SummarizeThreshold
    /\ current_session_id = None => message_count = 0

\* C18, witness: the tenth chat call of a session, no model call having
\* failed: the counter is at its bound.
C18_Witness ==
    /\ ret.op = "chat" /\ ret.outcome = "ok"
    /\ failures = 0
    /\ prev.message_count = SummarizeThreshold - 1
    /\ message_count = SummarizeThreshold

\* A chat call began a summarization and did not finish it.
SummaryFailed ==
    ret.op = "chat" /\ ret.tried_summary /\ ~ret.summarized

\* A chat call of the active session finds the counter above the threshold.
RetryDue ==
    ChatServed /\ ~Switched /\ prev.message_count > SummarizeThreshold

\* C19, as stated: a chat call whose summarization fails fails with the
\* counter above 10 and the rolling buffer, the standing summary and the
\* profiles as they were; and the next chat call of the session attempts
\* summarization again, and asks for its reply only after it is done.
C19_FailedSummaryLeavesStateAlone ==
    /\ SummaryFailed =>
           /\ ret.outcome = "UpstreamError"
           /\ message_count > SummarizeThreshold
           /\ session_memory = prev.session_memory
           /\ summary_memory = prev.summary_memory
           /\ user_profiles = prev.user_profiles
    /\ RetryDue =>
           /\ ret.tried_summary
           /\ ret.input # <<>> => ret.summarized

\* C19, amended: a chat call whose summarization fails fails, without
\* asking for a reply, with the counter above 10 and the profiles as they
\* were.  If it is the call that asks for the summary (the first model call)
\* that failed, the rolling buffer and the standing summary are as they
\* were; if it is the call by which the standing summary folds the new
\* entry in (the second), the buffer has been cleared and the entry has
\* been appended to the standing summary, whose running text is as it was.
\* The next chat call of the session attempts summarization again, and asks
\* for its reply only after it is done.
C19_FailedSummaryKeepsCounterAboveTen ==
    /\ SummaryFailed =>
           /\ ret.outcome = "UpstreamError"
           /\ ret.input = <<>>
           /\ message_count = CountBeforeTurn + 1
           /\ message_count > SummarizeThreshold
           /\ user_profiles = prev.user_profiles
           /\ ret.llm_calls \in {1, 2}
           /\ ret.llm_calls = 1 =>
                  /\ session_memory = prev.session_memory
                  /\ summary_memory = prev.summary_memory
           /\ ret.llm_calls = 2 =>
                  /\ session_memory = <<>>
                  /\ summary_memory.buffer = prev.summary_memory.buffer
                  /\ \E text \in Responses :
                         summary_memory.messages =
                             prev.summary_memory.messages
                                 \o <<HumanMessage(<<"Conversation Summary">>),
                                      AIMessage(text)>>
    /\ RetryDue =>
           /\ ret.tried_summary
           /\ ret.input # <<>> => ret.summarized

\* C19, witness: the chat call after one whose summarization failed finds
\* the counter at 11, summarizes and is answered.
C19_Witness ==
    /\ RetryDue /\ ret.outcome = "ok"
    /\ since_reset.summary_failed
    /\ prev.message_count = SummarizeThreshold + 1
    /\ ret.summarized
    /\ message_count = 0

\* C20: a chat call that names a session other than the active one leaves
\* the counter at 1, whatever it was, and attempts no summarization; and a
\* chat call attempts summarization, and so clears the rolling buffer, only
\* as the eleventh or a later chat call since the session was last started,
\* switched to or cleared.
C20_SwitchRestartsCount ==
    /\ ret.op = "chat" /\ Switched =>
           /\ message_count = 1
           /\ ~ret.tried_summary
           /\ since_reset.chats = 1
    /\ ret.op = "chat" /\ ret.tried_summary => since_reset.chats >= 11
    /\ since_reset.chats < 11 => since_reset.summaries = 0
    /\ ret.op = "chat" /\ since_reset.chats < 11 =>
           IsPrefix(prev.session_memory, session_memory)

\* C20, witness: after ten chat calls of one session a chat call names
\* another: the counter is 1 and the buffer still holds the ten exchanges.
C20_Witness ==
    /\ ret.op = "chat" /\ Switched /\ ret.outcome = "ok"
    /\ prev.message_count = SummarizeThreshold
    /\ message_count = 1
    /\ Len(session_memory) = 2 * SummarizeThreshold + 2

====
